---- MODULE Spec2Model ----
(***************************************************************************)
(* SAE Feature Explorer: the data-loading utilities (src/lib/data.ts), the *)
(* index-build script and the data-sync script.                            *)
(*                                                                         *)
(* Strings are sequences of UTF-16 code units (naturals), so that          *)
(* startsWith, slice, toLowerCase, trim, includes and the regular          *)
(* expression of parseContext are computed character by character.         *)
(***************************************************************************)
EXTENDS Integers, Sequences, FiniteSets, TLC

VARIABLES
    \* query engine / formatter call: arguments, result, position
    features, sort, query, page, perPage, token, context, result, pc,
    \* file system and serving process
    destCsv, destFeatures, indexFile, withDataFile, last, indexReads

vars == <<features, sort, query, page, perPage, token, context, result, pc,
          destCsv, destFeatures, indexFile, withDataFile, last, indexReads>>

callVars == <<features, sort, query, page, perPage, token, context>>
storeVars == <<destCsv, destFeatures, indexFile, withDataFile, last, indexReads>>

----------------------------------------------------------------------------
\* Bounds of the model

MaxId == 2
MaxRank == 2
MaxLen == 3
MaxPagLen == 4
MaxPerPage == 3
MaxPage == 5
MaxNegPage == 2
MaxSearchLen == 2
MaxStr == 2
MaxContext == 6
MaxReads == 2

----------------------------------------------------------------------------
\* Generic helpers

Min(a, b) == IF a < b THEN a ELSE b
Max(a, b) == IF a > b THEN a ELSE b

SeqsUpTo(S, n) == UNION {[1..k -> S] : k \in 0..n}

\* FeatureIndexEntry
Feature(id, rc, rnc, interp, hd) ==
    [feature_index |-> id, rank_control |-> rc, rank_nocontrol |-> rnc,
     interpretation |-> interp, hasData |-> hd]

NoResult == [none |-> TRUE]

----------------------------------------------------------------------------
\* paginateFeatures

DefaultPerPage == 100

\* Math.ceil(a / b) for an integer a >= 0 and an integer b >= 1
MathCeilDiv(a, b) == IF a % b = 0 THEN a \div b ELSE (a \div b) + 1

\* Array.prototype.slice(start, end): negative offsets count from the end,
\* both are clamped to [0, length], and the result is empty when end <= start
Slice(s, start, end) ==
    LET len == Len(s)
        k == IF start < 0 THEN Max(len + start, 0) ELSE Min(start, len)
        final == IF end < 0 THEN Max(len + end, 0) ELSE Min(end, len)
    IN  SubSeq(s, k + 1, final)

paginateFeaturesOffByOne(fs, p, n) ==
    LET totalPages == MathCeilDiv(Len(fs), n)
        start == (p - 1) * n
        end == start + n - 1
    IN  [data |-> Slice(fs, start, end), totalPages |-> totalPages,
         currentPage |-> p, hasNext |-> p < totalPages, hasPrev |-> p > 1]

paginateFeaturesClamped(fs, p, n) ==
    LET totalPages == MathCeilDiv(Len(fs), n)
        q == Max(1, Min(p, totalPages))
        start == (q - 1) * n
        end == start + n
    IN  [data |-> Slice(fs, start, end), totalPages |-> totalPages,
         currentPage |-> q, hasNext |-> q < totalPages, hasPrev |-> q > 1]

paginateFeatures(fs, p, n) ==
    LET totalPages == MathCeilDiv(Len(fs), n)
        start == (p - 1) * n
        end == start + n
    IN  [data |-> Slice(fs, start, end), totalPages |-> totalPages,
         currentPage |-> p, hasNext |-> p < totalPages, hasPrev |-> p > 1]

PageFeatures == {Feature(i, 1, 1, <<>>, FALSE) : i \in 1..MaxId}

IdleCall ==
    /\ features = <<>> /\ sort = "rank-ctrl" /\ query = <<>>
    /\ page = 1 /\ perPage = DefaultPerPage /\ token = <<>> /\ context = <<>>

IdleStore ==
    /\ destCsv = [exists |-> FALSE, rows |-> <<>>]
    /\ destFeatures = {}
    /\ indexFile = [exists |-> FALSE, content |-> <<>>]
    /\ withDataFile = [exists |-> FALSE, content |-> <<>>]
    /\ last = [op |-> "none"]
    /\ indexReads = 0

InitPaginate ==
    /\ features \in SeqsUpTo(PageFeatures, MaxPagLen)
    /\ page \in (0 - MaxNegPage)..MaxPage
    /\ perPage \in (1..MaxPerPage) \cup {DefaultPerPage}
    /\ sort = "rank-ctrl" /\ query = <<>> /\ token = <<>> /\ context = <<>>
    /\ result = NoResult
    /\ pc = "start"
    /\ IdleStore

Paginate ==
    /\ pc = "start"
    /\ result' = paginateFeatures(features, page, perPage)
    /\ pc' = "done"
    /\ UNCHANGED <<callVars, storeVars>>

NextPaginate == Paginate

SpecPaginate == InitPaginate /\ [][NextPaginate]_vars

----------------------------------------------------------------------------

\* the least t with t * n >= len
CeilOf(len, n) == CHOOSE t \in 0..len : t * n >= len /\ (t = 0 \/ (t - 1) * n < len)

RECURSIVE ConcatPages(_, _, _)
ConcatPages(fs, n, upTo) ==
    IF upTo <= 0 THEN <<>>
    ELSE ConcatPages(fs, n, upTo - 1) \o paginateFeatures(fs, upTo, n).data

\* C1: concatenating the data of pages 1..totalPages, totalPages =
\* ceil(|X| / n), gives back exactly X (same elements, same order), and the
\* empty sequence when X is empty.
PaginateReconstructs ==
    pc = "done" =>
        /\ result.totalPages = CeilOf(Len(features), perPage)
        /\ ConcatPages(features, perPage, result.totalPages) = features

PaginateReconstructsWitness ==
    /\ pc = "done"
    /\ result.totalPages >= 2
    /\ Len(features) % perPage # 0
    /\ page = result.totalPages
    /\ Len(result.data) < perPage
    /\ result.data # <<>>

\* C7: the page is not clamped: currentPage is the supplied page, hasNext =
\* (page < totalPages), hasPrev = (page > 1), and a page beyond totalPages
\* yields empty data with hasNext false.
PaginateNoClamp ==
    pc = "done" =>
        LET totalPages == CeilOf(Len(features), perPage)
        IN  /\ result.currentPage = page
            /\ result.hasNext = (page < totalPages)
            /\ result.hasPrev = (page > 1)
            /\ (page > totalPages => result.data = <<>> /\ ~result.hasNext)

PaginateNoClampWitness ==
    /\ pc = "done"
    /\ features # <<>>
    /\ page > result.totalPages
    /\ result.currentPage = page
    /\ result.data = <<>>
    /\ result.hasPrev

----------------------------------------------------------------------------
\* sortFeatures

SortOptions == {"rank-ctrl", "rank-ctrl-desc", "rank-noctrl", "rank-noctrl-desc",
                "id", "id-desc", "has-data"}

\* an option outside the SortOption type, which reaches the default branch
UnknownOption == "unknown"

CompareWrongDirection(opt, a, b) ==
    CASE opt = "rank-ctrl" -> a.rank_control - b.rank_control
      [] opt = "rank-ctrl-desc" -> a.rank_control - b.rank_control
      [] opt = "rank-noctrl" -> a.rank_nocontrol - b.rank_nocontrol
      [] opt = "rank-noctrl-desc" -> b.rank_nocontrol - a.rank_nocontrol
      [] opt = "id" -> a.feature_index - b.feature_index
      [] opt = "id-desc" -> b.feature_index - a.feature_index
      [] opt = "has-data" ->
            IF a.hasData = b.hasData THEN a.rank_control - b.rank_control
            ELSE IF a.hasData THEN -1 ELSE 1

CompareHasDataLast(opt, a, b) ==
    CASE opt = "rank-ctrl" -> a.rank_control - b.rank_control
      [] opt = "rank-ctrl-desc" -> b.rank_control - a.rank_control
      [] opt = "rank-noctrl" -> a.rank_nocontrol - b.rank_nocontrol
      [] opt = "rank-noctrl-desc" -> b.rank_nocontrol - a.rank_nocontrol
      [] opt = "id" -> a.feature_index - b.feature_index
      [] opt = "id-desc" -> b.feature_index - a.feature_index
      [] opt = "has-data" ->
            IF a.hasData = b.hasData THEN a.rank_control - b.rank_control
            ELSE IF a.hasData THEN 1 ELSE -1

\* the comparator handed to Array.prototype.sort for each option
Compare(opt, a, b) ==
    CASE opt = "rank-ctrl" -> a.rank_control - b.rank_control
      [] opt = "rank-ctrl-desc" -> b.rank_control - a.rank_control
      [] opt = "rank-noctrl" -> a.rank_nocontrol - b.rank_nocontrol
      [] opt = "rank-noctrl-desc" -> b.rank_nocontrol - a.rank_nocontrol
      [] opt = "id" -> a.feature_index - b.feature_index
      [] opt = "id-desc" -> b.feature_index - a.feature_index
      [] opt = "has-data" ->
            IF a.hasData = b.hasData THEN a.rank_control - b.rank_control
            ELSE IF a.hasData THEN -1 ELSE 1

\* Array.prototype.sort(cmp) is a stable sort (ECMAScript 2019): x goes after
\* every element that does not compare greater than it
RECURSIVE InsertStable(_, _, _)
InsertStable(sorted, x, opt) ==
    IF sorted = <<>> THEN <<x>>
    ELSE IF Compare(opt, Head(sorted), x) <= 0
         THEN <<Head(sorted)>> \o InsertStable(Tail(sorted), x, opt)
         ELSE <<x>> \o sorted

RECURSIVE ArraySort(_, _)
ArraySort(s, opt) ==
    IF s = <<>> THEN <<>>
    ELSE InsertStable(ArraySort(SubSeq(s, 1, Len(s) - 1), opt), s[Len(s)], opt)

sortFeatures(fs, opt) ==
    IF opt \in SortOptions THEN ArraySort(fs, opt) ELSE fs

\* the inputs of a sort: the option's key and a field that tells equal keys
\* apart both vary
SortInputs(opt) ==
    CASE opt \in {"rank-noctrl", "rank-noctrl-desc"} ->
            {Feature(i, 1, r, <<>>, FALSE) : i \in 1..MaxId, r \in 1..MaxRank}
      [] opt = "has-data" ->
            {Feature(i, r, 1, <<>>, h) : i \in 1..MaxId, r \in 1..MaxRank, h \in BOOLEAN}
      [] OTHER ->
            {Feature(i, r, 1, <<>>, FALSE) : i \in 1..MaxId, r \in 1..MaxRank}

InitSort ==
    /\ sort \in SortOptions \cup {UnknownOption}
    /\ features \in SeqsUpTo(SortInputs(sort), MaxLen)
    /\ query = <<>> /\ page = 1 /\ perPage = DefaultPerPage
    /\ token = <<>> /\ context = <<>>
    /\ result = NoResult
    /\ pc = "start"
    /\ IdleStore

Sort ==
    /\ pc = "start"
    /\ result' = sortFeatures(features, sort)
    /\ pc' = "done"
    /\ UNCHANGED <<callVars, storeVars>>

NextSort == Sort

SpecSort == InitSort /\ [][NextSort]_vars

----------------------------------------------------------------------------

KeyedOptions == SortOptions \ {"has-data"}

SortKey(opt, f) ==
    CASE opt \in {"rank-ctrl", "rank-ctrl-desc"} -> f.rank_control
      [] opt \in {"rank-noctrl", "rank-noctrl-desc"} -> f.rank_nocontrol
      [] opt \in {"id", "id-desc"} -> f.feature_index

Descending(opt) == opt \in {"rank-ctrl-desc", "rank-noctrl-desc", "id-desc"}

\* the elements of s whose key is k, in the order of s
WithKey(s, opt, k) ==
    LET Has(f) == SortKey(opt, f) = k IN SelectSeq(s, Has)

Occurrences(s, x) == Cardinality({i \in 1..Len(s) : s[i] = x})

\* C2: for every option but has-data the output is a permutation of the
\* input, ordered by the option's key in the option's direction, and stable:
\* elements of equal key keep their relative input order (also descending).
SortKeyedStable ==
    (pc = "done" /\ sort \in KeyedOptions) =>
        /\ Len(result) = Len(features)
        /\ \A i \in 1..Len(features) :
                Occurrences(result, features[i]) = Occurrences(features, features[i])
        /\ \A i, j \in 1..Len(result) :
                i < j => IF Descending(sort)
                         THEN SortKey(sort, result[i]) >= SortKey(sort, result[j])
                         ELSE SortKey(sort, result[i]) <= SortKey(sort, result[j])
        /\ \A i \in 1..Len(features) :
                LET k == SortKey(sort, features[i])
                IN  WithKey(result, sort, k) = WithKey(features, sort, k)

SortKeyedStableWitness ==
    /\ pc = "done"
    /\ sort = "rank-ctrl-desc"
    /\ Len(features) = 3
    /\ result # features
    /\ \E i, j \in 1..3 :
            /\ i < j
            /\ features[i].rank_control = features[j].rank_control
            /\ features[i] # features[j]
            /\ features[i].rank_control > result[3].rank_control

\* C3: under has-data every hasData=true element precedes every
\* hasData=false element, and each partition is in ascending rank_control.
SortHasData ==
    (pc = "done" /\ sort = "has-data") =>
        \A i, j \in 1..Len(result) :
            i < j =>
                /\ ~(~result[i].hasData /\ result[j].hasData)
                /\ (result[i].hasData = result[j].hasData =>
                        result[i].rank_control <= result[j].rank_control)

SortHasDataWitness ==
    /\ pc = "done"
    /\ sort = "has-data"
    /\ Len(features) = 3
    /\ ~features[1].hasData /\ features[3].hasData
    /\ features[2].hasData
    /\ features[2].rank_control > features[3].rank_control
    /\ result[1] = features[3]

----------------------------------------------------------------------------
\* searchFeatures

SPACE == 32

\* String.prototype.toLowerCase on the ASCII letters
LowerCaseUnit(c) == IF c >= 65 /\ c <= 90 THEN c + 32 ELSE c
toLowerCase(s) == [i \in 1..Len(s) |-> LowerCaseUnit(s[i])]

\* WhiteSpace and LineTerminator code units, which String.prototype.trim strips
WhiteSpaceUnits ==
    {9, 10, 11, 12, 13, 32, 160, 5760, 8232, 8233, 8239, 8287, 12288, 65279}
        \cup (8192..8202)

RECURSIVE trimStart(_)
trimStart(s) ==
    IF s # <<>> /\ Head(s) \in WhiteSpaceUnits THEN trimStart(Tail(s)) ELSE s

RECURSIVE trimEnd(_)
trimEnd(s) ==
    IF s # <<>> /\ s[Len(s)] \in WhiteSpaceUnits
    THEN trimEnd(SubSeq(s, 1, Len(s) - 1)) ELSE s

trim(s) == trimEnd(trimStart(s))

\* String.prototype.includes
includes(s, sub) ==
    \E k \in 0..(Len(s) - Len(sub)) : SubSeq(s, k + 1, k + Len(sub)) = sub

searchFeaturesQueryCase(fs, q) ==
    IF trim(q) = <<>> THEN fs
    ELSE LET Hit(f) == includes(toLowerCase(f.interpretation), q)
         IN  SelectSeq(fs, Hit)

searchFeatures(fs, q) ==
    IF trim(q) = <<>> THEN fs
    ELSE LET lowerQuery == toLowerCase(q)
             Hit(f) == includes(toLowerCase(f.interpretation), lowerQuery)
         IN  SelectSeq(fs, Hit)

\* "A", "a"; and the space for queries
InterpretationUnits == {65, 97}
QueryUnits == {65, 97, SPACE}

SearchInputs ==
    {Feature(1, 1, 1, t, FALSE) : t \in SeqsUpTo(InterpretationUnits, MaxStr)}

InitSearch ==
    /\ features \in SeqsUpTo(SearchInputs, MaxSearchLen)
    /\ query \in SeqsUpTo(QueryUnits, MaxStr)
    /\ sort = "rank-ctrl" /\ page = 1 /\ perPage = DefaultPerPage
    /\ token = <<>> /\ context = <<>>
    /\ result = NoResult
    /\ pc = "start"
    /\ IdleStore

Search ==
    /\ pc = "start"
    /\ result' = searchFeatures(features, query)
    /\ pc' = "done"
    /\ UNCHANGED <<callVars, storeVars>>

NextSearch == Search

SpecSearch == InitSearch /\ [][NextSearch]_vars

----------------------------------------------------------------------------
\* s contains q when letter case is ignored: q lines up with s at some offset
SameLetter(c, d) ==
    \/ c = d
    \/ (c \in 65..90 /\ d = c + 32)
    \/ (d \in 65..90 /\ c = d + 32)

ContainsIgnoringCase(s, q) ==
    \E off \in 0..(Len(s) - Len(q)) :
        \A k \in 1..Len(q) : SameLetter(s[off + k], q[k])

\* the elements of fs whose interpretation contains q, in the order of fs
MatchesOf(fs, q) ==
    LET Has(f) == ContainsIgnoringCase(f.interpretation, q) IN SelectSeq(fs, Has)

IsBlank(q) == \A i \in 1..Len(q) : q[i] \in WhiteSpaceUnits

\* C4 as stated: for every query the result holds exactly the elements whose
\* lower-cased interpretation contains the lower-cased query, in input order.
SearchExactForEveryQuery ==
    pc = "done" => result = MatchesOf(features, query)

\* C4: for a query that is empty or has a non-whitespace character the
\* result holds exactly the elements whose lower-cased interpretation
\* contains the lower-cased query, in input order; for a whitespace-only
\* query the result is the input unchanged.
SearchExactUnlessBlank ==
    pc = "done" =>
        IF IsBlank(query) THEN result = features
        ELSE result = MatchesOf(features, query)

SearchExactUnlessBlankWitness ==
    /\ pc = "done"
    /\ ~IsBlank(query)
    /\ 65 \in {query[i] : i \in 1..Len(query)}
    /\ Len(features) = 2
    /\ Len(result) = 1
    /\ result[1] = features[2]
    /\ 65 \notin {result[1].interpretation[i] : i \in 1..Len(result[1].interpretation)}

----------------------------------------------------------------------------
\* formatToken

NEWLINE == 10
TAB == 9
CR == 13
\* the byte-level BPE glyphs: U+010A, U+0109, U+010D, U+0120
BPE_NEWLINE == 266
BPE_TAB == 265
BPE_CR == 269
BPE_SPACE == 288

\* "[NEWLINE]", "[SPACE]", "[TAB]", "[CR]", "[EMPTY]", "[SP]"
DisplayNewline == <<91, 78, 69, 87, 76, 73, 78, 69, 93>>
DisplaySpace == <<91, 83, 80, 65, 67, 69, 93>>
DisplayTab == <<91, 84, 65, 66, 93>>
DisplayCr == <<91, 67, 82, 93>>
DisplayEmpty == <<91, 69, 77, 80, 84, 89, 93>>
DisplaySp == <<91, 83, 80, 93>>

Shown(d, special) == [display |-> d, isSpecial |-> special]

\* String.prototype.startsWith with a one-unit prefix
startsWith(s, c) == Len(s) >= 1 /\ s[1] = c

\* the rules without the BPE glyphs
formatTokenNoBpe(t) ==
    IF t = <<NEWLINE>> THEN Shown(DisplayNewline, TRUE)
    ELSE IF t = <<SPACE>> THEN Shown(DisplaySpace, TRUE)
    ELSE IF t = <<TAB>> THEN Shown(DisplayTab, TRUE)
    ELSE IF t = <<CR>> THEN Shown(DisplayCr, TRUE)
    ELSE IF t = <<>> THEN Shown(DisplayEmpty, TRUE)
    ELSE IF startsWith(t, SPACE) /\ Len(t) > 1
         THEN Shown(DisplaySp \o Slice(t, 1, Len(t)), FALSE)
    ELSE Shown(t, FALSE)

formatToken(t) ==
    IF t = <<NEWLINE>> \/ t = <<BPE_NEWLINE>> THEN Shown(DisplayNewline, TRUE)
    ELSE IF t = <<SPACE>> THEN Shown(DisplaySpace, TRUE)
    ELSE IF t = <<TAB>> \/ t = <<BPE_TAB>> THEN Shown(DisplayTab, TRUE)
    ELSE IF t = <<CR>> \/ t = <<BPE_CR>> THEN Shown(DisplayCr, TRUE)
    ELSE IF t = <<>> THEN Shown(DisplayEmpty, TRUE)
    ELSE IF startsWith(t, BPE_SPACE) /\ Len(t) > 1
         THEN Shown(DisplaySp \o Slice(t, 1, Len(t)), FALSE)
    ELSE IF startsWith(t, SPACE) /\ Len(t) > 1
         THEN Shown(DisplaySp \o Slice(t, 1, Len(t)), FALSE)
    ELSE IF t = <<BPE_SPACE>> THEN Shown(DisplaySpace, TRUE)
    ELSE Shown(t, FALSE)

\* the control characters, their glyphs and the letter "a"
TokenUnits == {NEWLINE, BPE_NEWLINE, SPACE, TAB, BPE_TAB, CR, BPE_CR, BPE_SPACE, 97}

InitToken ==
    /\ token \in SeqsUpTo(TokenUnits, MaxStr)
    /\ features = <<>> /\ sort = "rank-ctrl" /\ query = <<>>
    /\ page = 1 /\ perPage = DefaultPerPage /\ context = <<>>
    /\ result = NoResult
    /\ pc = "start"
    /\ IdleStore

FormatToken ==
    /\ pc = "start"
    /\ result' = formatToken(token)
    /\ pc' = "done"
    /\ UNCHANGED <<callVars, storeVars>>

NextToken == FormatToken

SpecToken == InitToken /\ [][NextToken]_vars

----------------------------------------------------------------------------
\* parseContext

STAR == 42

\* the code units "." does not match (no s flag)
LineTerminators == {10, 13, 8232, 8233}

AllDot(s) == \A i \in 1..Len(s) : s[i] \notin LineTerminators

StarsAt(s, i) == i >= 1 /\ i + 1 <= Len(s) /\ s[i] = STAR /\ s[i + 1] = STAR

\* /^(.*)\*\*(.*?)\*\*(.*)$/ matches with group 1 = s[1..i], group 2 =
\* s[i+3..j] and group 3 = s[j+3..]
RegexMatchAt(s, i, j) ==
    /\ StarsAt(s, i + 1)
    /\ j >= i + 2
    /\ StarsAt(s, j + 1)
    /\ AllDot(s)

RegexMatches(s) ==
    {m \in (0..Len(s)) \X (0..Len(s)) : RegexMatchAt(s, m[1], m[2])}

\* the match the backtracking finds first: group 1 is greedy (the longest
\* that lets the rest match), group 2 is lazy (then the shortest)
RegexExec(s) ==
    LET ms == RegexMatches(s)
        i == CHOOSE a \in {m[1] : m \in ms} : \A m \in ms : m[1] <= a
        j == CHOOSE b \in {m[2] : m \in {n \in ms : n[1] = i}} :
                \A m \in ms : m[1] = i => b <= m[2]
    IN  <<SubSeq(s, 1, i), SubSeq(s, i + 3, j), SubSeq(s, j + 3, Len(s))>>

parseContext(c) ==
    IF RegexMatches(c) # {}
    THEN LET match == RegexExec(c)
         IN  [before |-> match[1], token |-> match[2], after |-> match[3]]
    ELSE [before |-> c, token |-> <<>>, after |-> <<>>]

\* "*", "a" and the newline
ContextUnits == {STAR, 97, NEWLINE}

InitContext ==
    /\ context \in SeqsUpTo(ContextUnits, MaxContext)
    /\ features = <<>> /\ sort = "rank-ctrl" /\ query = <<>>
    /\ page = 1 /\ perPage = DefaultPerPage /\ token = <<>>
    /\ result = NoResult
    /\ pc = "start"
    /\ IdleStore

ParseContext ==
    /\ pc = "start"
    /\ result' = parseContext(context)
    /\ pc' = "done"
    /\ UNCHANGED <<callVars, storeVars>>

NextContext == ParseContext

SpecContext == InitContext /\ [][NextContext]_vars

----------------------------------------------------------------------------
\* The artifacts on disk, the two offline scripts and the loaders.
\* destCsv is data/Feature_output.csv, destFeatures the identifiers N with a
\* data/features/feature_N.json, indexFile src/lib/features-index.json and
\* withDataFile src/lib/features-with-data.json.

Null == [null |-> TRUE]

FeatureIds == 1..MaxId

\* a row of Feature_output.csv; the ranks fall as the identifier rises
CsvRow(i) ==
    [feature_index |-> i, rank_control |-> MaxId + 1 - i,
     rank_nocontrol |-> i, interpretation |-> <<97>>]

RECURSIVE CsvOf(_)
CsvOf(ids) ==
    IF ids = {} THEN <<>>
    ELSE LET m == CHOOSE x \in ids : \A y \in ids : y <= x
         IN  CsvOf(ids \ {m}) \o <<CsvRow(m)>>

\* the contents the source directory may hold when the sync script runs
SourceCsvs == {CsvOf(ids) : ids \in SUBSET FeatureIds}

\* scripts/sync-data.mjs, a whole run: without the source CSV it exits
\* before any feature file is copied; else every source file ends up in the
\* destination with the source's bytes (new, updated or unchanged), and no
\* destination file is ever removed
SyncData(srcCsvExists, srcRows, srcFeatures) ==
    /\ IF ~srcCsvExists
       THEN /\ UNCHANGED <<destCsv, destFeatures>>
            /\ last' = [op |-> "sync-data", arg |-> 0, ret |-> 1, threw |-> FALSE]
       ELSE /\ destCsv' = [exists |-> TRUE, rows |-> srcRows]
            /\ destFeatures' = destFeatures \cup srcFeatures
            /\ last' = [op |-> "sync-data", arg |-> 0, ret |-> 0, threw |-> FALSE]
    /\ UNCHANGED <<indexFile, withDataFile, indexReads>>
    /\ UNCHANGED <<callVars, result, pc>>

\* the rows of the index: each CSV row with its hasData flag
RECURSIVE IndexRows(_, _)
IndexRows(rows, present) ==
    IF rows = <<>> THEN <<>>
    ELSE LET r == Head(rows)
         IN  <<Feature(r.feature_index, r.rank_control, r.rank_nocontrol,
                       r.interpretation, r.feature_index \in present)>>
             \o IndexRows(Tail(rows), present)

\* the build-index script, a whole run: without the CSV it exits and writes
\* nothing; else it writes the index sorted by rank_control and the list of
\* the identifiers whose hasData is true
BuildIndex ==
    /\ IF ~destCsv.exists
       THEN /\ UNCHANGED <<indexFile, withDataFile>>
            /\ last' = [op |-> "build-index", arg |-> 0, ret |-> 1, threw |-> FALSE]
       ELSE LET built == ArraySort(IndexRows(destCsv.rows, destFeatures), "rank-ctrl")
                HasData(f) == f.hasData
                featuresWithData == SelectSeq(built, HasData)
            IN  /\ indexFile' = [exists |-> TRUE, content |-> built]
                /\ withDataFile' =
                        [exists |-> TRUE,
                         content |-> [i \in 1..Len(featuresWithData) |->
                                        featuresWithData[i].feature_index]]
                /\ last' = [op |-> "build-index", arg |-> 0, ret |-> 0, threw |-> FALSE]
    /\ UNCHANGED <<destCsv, destFeatures, indexReads>>
    /\ UNCHANGED <<callVars, result, pc>>

\* what a loader call does: the value returned, whether it threw, and
\* whether it read and parsed the file
Returned(v, didRead) == [ret |-> v, threw |-> FALSE, read |-> didRead]
Thrown == [ret |-> Null, threw |-> TRUE, read |-> FALSE]

\* JSON.parse(fs.readFileSync(path)): ENOENT is thrown for a missing file
ReadJson(file) == IF file.exists THEN Returned(file.content, TRUE) ELSE Thrown

FeatureFile(featureId) ==
    [exists |-> featureId \in destFeatures, content |-> [feature_idx |-> featureId]]

loadFeaturesIndex ==
    IF ~indexFile.exists THEN Returned(<<>>, FALSE) ELSE ReadJson(indexFile)

loadFeaturesWithData ==
    IF ~withDataFile.exists THEN Returned(<<>>, FALSE) ELSE ReadJson(withDataFile)

loadFeatureDataUnguarded(featureId) == ReadJson(FeatureFile(featureId))

loadFeatureData(featureId) ==
    IF ~FeatureFile(featureId).exists THEN Returned(Null, FALSE)
    ELSE ReadJson(FeatureFile(featureId))

\* features.find(...) || null: the first entry with the identifier
getFeatureFromIndex(featureId) ==
    LET loaded == loadFeaturesIndex
    IN  IF loaded.threw THEN loaded
        ELSE LET hits == {i \in 1..Len(loaded.ret) :
                            loaded.ret[i].feature_index = featureId}
                 found == IF hits = {} THEN Null
                          ELSE loaded.ret[CHOOSE i \in hits : \A j \in hits : i <= j]
             IN  Returned(found, loaded.read)

\* the record of a loader call in the serving process
CallRecord(op, arg, outcome) ==
    [op |-> op, arg |-> arg, ret |-> outcome.ret, threw |-> outcome.threw]

\* the reads of the index artifact so far, counted up to MaxReads
ReadsAfter(outcome) ==
    IF outcome.read THEN Min(indexReads + 1, MaxReads) ELSE indexReads

LoadFeaturesIndex ==
    /\ last' = CallRecord("loadFeaturesIndex", 0, loadFeaturesIndex)
    /\ indexReads' = ReadsAfter(loadFeaturesIndex)
    /\ UNCHANGED <<destCsv, destFeatures, indexFile, withDataFile>>
    /\ UNCHANGED <<callVars, result, pc>>

LoadFeaturesWithData ==
    /\ last' = CallRecord("loadFeaturesWithData", 0, loadFeaturesWithData)
    /\ UNCHANGED <<destCsv, destFeatures, indexFile, withDataFile, indexReads>>
    /\ UNCHANGED <<callVars, result, pc>>

LoadFeatureData(featureId) ==
    /\ last' = CallRecord("loadFeatureData", featureId, loadFeatureData(featureId))
    /\ UNCHANGED <<destCsv, destFeatures, indexFile, withDataFile, indexReads>>
    /\ UNCHANGED <<callVars, result, pc>>

GetFeatureFromIndex(featureId) ==
    /\ last' = CallRecord("getFeatureFromIndex", featureId,
                          getFeatureFromIndex(featureId))
    /\ indexReads' = ReadsAfter(getFeatureFromIndex(featureId))
    /\ UNCHANGED <<destCsv, destFeatures, indexFile, withDataFile>>
    /\ UNCHANGED <<callVars, result, pc>>

Init ==
    /\ IdleCall
    /\ result = NoResult
    /\ pc = "serving"
    /\ IdleStore

Next ==
    \/ \E rows \in SourceCsvs, fs \in SUBSET FeatureIds, csv \in BOOLEAN :
            SyncData(csv, rows, fs)
    \/ BuildIndex
    \/ LoadFeaturesIndex
    \/ LoadFeaturesWithData
    \/ \E featureId \in FeatureIds : LoadFeatureData(featureId)
    \/ \E featureId \in FeatureIds : GetFeatureFromIndex(featureId)

Spec == Init /\ [][Next]_vars

----------------------------------------------------------------------------
\* the nine rules of the token table, in priority order
TokenRules(t) ==
    << [when |-> t \in {<<NEWLINE>>, <<BPE_NEWLINE>>},
        display |-> DisplayNewline, isSpecial |-> TRUE],
       [when |-> t = <<SPACE>>, display |-> DisplaySpace, isSpecial |-> TRUE],
       [when |-> t \in {<<TAB>>, <<BPE_TAB>>},
        display |-> DisplayTab, isSpecial |-> TRUE],
       [when |-> t \in {<<CR>>, <<BPE_CR>>},
        display |-> DisplayCr, isSpecial |-> TRUE],
       [when |-> Len(t) = 0, display |-> DisplayEmpty, isSpecial |-> TRUE],
       [when |-> Len(t) >= 2 /\ t[1] = BPE_SPACE,
        display |-> DisplaySp \o SubSeq(t, 2, Len(t)), isSpecial |-> FALSE],
       [when |-> Len(t) >= 2 /\ t[1] = SPACE,
        display |-> DisplaySp \o SubSeq(t, 2, Len(t)), isSpecial |-> FALSE],
       [when |-> t = <<BPE_SPACE>>, display |-> DisplaySpace, isSpecial |-> TRUE],
       [when |-> TRUE, display |-> t, isSpecial |-> FALSE] >>

FirstRule(t) ==
    LET rules == TokenRules(t)
    IN  CHOOSE i \in 1..9 : rules[i].when /\ \A j \in 1..(i - 1) : ~rules[j].when

SpecialTokens ==
    {<<NEWLINE>>, <<BPE_NEWLINE>>, <<SPACE>>, <<TAB>>, <<BPE_TAB>>, <<CR>>,
     <<BPE_CR>>, <<>>, <<BPE_SPACE>>}

MarkersFrom(s, from) == {i \in from..Len(s) : StarsAt(s, i)}

Least(S) == CHOOSE x \in S : \A y \in S : x <= y

HasDelimitedSpan(s) ==
    MarkersFrom(s, 1) # {} /\ MarkersFrom(s, Least(MarkersFrom(s, 1)) + 2) # {}

\* C5: when the context holds a span delimited by a pair of "**" markers,
\* before is the text preceding the first "**", token the text up to the
\* next "**" and after everything that follows; with no delimited span the
\* whole input is before, and token and after are empty.
ParseContextFirstSpan ==
    pc = "done" =>
        IF HasDelimitedSpan(context)
        THEN LET open == Least(MarkersFrom(context, 1))
                 close == Least(MarkersFrom(context, open + 2))
             IN  /\ result.before = SubSeq(context, 1, open - 1)
                 /\ result.token = SubSeq(context, open + 2, close - 1)
                 /\ result.after = SubSeq(context, close + 2, Len(context))
        ELSE result = [before |-> context, token |-> <<>>, after |-> <<>>]

----------------------------------------------------------------------------
Entries(s) == {s[i] : i \in 1..Len(s)}

\* C8: a missing artifact is never fatal: with the index artifact absent
\* loadFeaturesIndex returns the empty sequence, with the has-data artifact
\* absent loadFeaturesWithData returns the empty sequence, with the detail
\* artifact absent loadFeatureData returns null, and getFeatureFromIndex
\* returns null when no entry has the identifier; none of them throws.
MissingArtifactNotFatal ==
    /\ (last.op = "loadFeaturesIndex" /\ ~indexFile.exists) =>
            (last.ret = <<>> /\ ~last.threw)
    /\ (last.op = "loadFeaturesWithData" /\ ~withDataFile.exists) =>
            (last.ret = <<>> /\ ~last.threw)
    /\ (last.op = "loadFeatureData" /\ last.arg \notin destFeatures) =>
            (last.ret = Null /\ ~last.threw)
    /\ (/\ last.op = "getFeatureFromIndex"
        /\ \A e \in Entries(indexFile.content) : e.feature_index # last.arg) =>
            (last.ret = Null /\ ~last.threw)

MissingArtifactNotFatalWitness ==
    /\ last.op = "loadFeatureData"
    /\ destFeatures # {}
    /\ indexFile.exists
    /\ last.arg \notin destFeatures
    /\ last.ret = Null
    /\ ~last.threw

\* C9: in every reachable state each entry of the loaded index has hasData
\* true exactly when loadFeatureData returns a record for its identifier,
\* and the has-data list holds exactly those identifiers.
HasDataAgreesWithDetail ==
    LET index == loadFeaturesIndex.ret
        withData == loadFeaturesWithData.ret
    IN  /\ \A e \in Entries(index) :
                e.hasData <=> (loadFeatureData(e.feature_index).ret # Null)
        /\ indexFile.exists =>
                Entries(withData) =
                    {e.feature_index : e \in {x \in Entries(index) :
                        loadFeatureData(x.feature_index).ret # Null}}

\* C10: within one serving process the index artifact is read and parsed at
\* most once, whatever the sequence of loadFeaturesIndex and
\* getFeatureFromIndex calls.
IndexReadAtMostOnce == indexReads <= 1

====
